---- MODULE Spec2Model ----
(***************************************************************************)
(* State machine of VscodeSelectBase                                       *)
(* (src/src/vscode-select/includes/vscode-select-base.ts): the option      *)
(* list, the selection, the active index, the dropdown visibility and the  *)
(* outside-click listener on the window, driven by the element's event     *)
(* handlers.                                                               *)
(***************************************************************************)
EXTENDS Integers, Sequences, FiniteSets

\* Longest list of slotted children that the model enumerates.
MaxLen == 2

VARIABLES
  multiple,           \* _multiple (fixed by the concrete subclass)
  combobox,           \* combobox property
  isConnected,        \* the element is attached to a document
  options,            \* _options
  selectedIndex,      \* _selectedIndex
  selectedIndexes,    \* _selectedIndexes
  activeIndex,        \* _activeIndex
  showDropdown,       \* _showDropdown
  ariaExpanded,       \* ariaExpanded
  clickListener,      \* _onClickOutsideBound is registered on window
  value,              \* _value
  values,             \* _values
  filter,             \* _filter
  assignedNodes,      \* what this._mainSlot.assignedNodes() returned to the
                      \* slot change of the last step (<<>> when the last step
                      \* was no slot change); SpecIngest keeps it across steps
  lastEvent,          \* the handler that ran in the last step
  wasOpen,            \* _showDropdown when that handler started
  dispatched,         \* vsc-change events dispatched by that handler
  thrown,             \* that handler ended in an uncaught TypeError
  warnings,           \* console.warn calls made by that handler
  propagationStopped, \* event.stopPropagation() was called by that handler
  defaultPrevented    \* event.preventDefault() was called by that handler

vars == <<multiple, combobox, isConnected, options,
          selectedIndex, selectedIndexes, activeIndex, showDropdown,
          ariaExpanded, clickListener, value, values, filter, assignedNodes,
          lastEvent, wasOpen, dispatched, thrown, warnings,
          propagationStopped, defaultPrevented>>

(***************************************************************************)
(* Inputs.                                                                 *)
(***************************************************************************)

\* Nodes that can be slotted: a node that is not a vscode-option, an option
\* without a value attribute, and a pre-selected option with a value attribute.
OtherNode == [isOption |-> FALSE, innerText |-> "x", hasValue |-> FALSE,
              value |-> "", description |-> "", selected |-> FALSE]
OptionA   == [isOption |-> TRUE, innerText |-> "a", hasValue |-> FALSE,
              value |-> "", description |-> "", selected |-> FALSE]
OptionB   == [isOption |-> TRUE, innerText |-> "b", hasValue |-> TRUE,
              value |-> "vb", description |-> "", selected |-> TRUE]
Nodes == {OtherNode, OptionA, OptionB}

\* Option objects given to the options setter.
OptsPool == {[label |-> "a", value |-> "a", description |-> "", selected |-> FALSE],
             [label |-> "b", value |-> "vb", description |-> "", selected |-> TRUE]}

SeqsUpTo(S, n) == UNION {[1..k -> S] : k \in 0..n}

\* Lists of slotted children, and lists of distinct option objects given to
\* the options setter.
NodeLists == SeqsUpTo(Nodes, MaxLen)
OptsLists == {o \in SeqsUpTo(OptsPool, Cardinality(OptsPool)) :
                \A i, j \in 1..Len(o) : i # j => o[i] # o[j]}

Keys == {"Enter", " ", "Escape", "ArrowUp", "ArrowDown", "a"}

\* Strings assigned to the filter property: the four search methods, and
\* strings that are none of them.
FilterInputs == {"contains", "fuzzy", "startsWith", "startsWithPerTerm",
                 "bogus", "startsWithPerm", "Fuzzy", ""}

\* Composed paths of a click that reaches window: outside the element, and
\* inside it.
PathOutside == <<"body", "document", "window">>
PathInside  == <<"face", "this", "body", "document", "window">>

(***************************************************************************)
(* Helpers standing for JavaScript built-ins.                              *)
(***************************************************************************)

\* String(boolean)
String(b) == IF b THEN "true" ELSE "false"

\* Array.prototype.findIndex(et => et === x): zero-based, -1 when absent.
FindIndex(path, x) ==
  IF \E i \in 1..Len(path) : path[i] = x
    THEN (CHOOSE i \in 1..Len(path) :
            /\ path[i] = x
            /\ \A j \in 1..(i - 1) : path[j] # x) - 1
    ELSE -1

\* arr[i] is undefined (i is a zero-based index)
Undefined(arr, i) == ~(i \in 0..(Len(arr) - 1))

\* arr[i] for a zero-based index
At(arr, i) == arr[i + 1]

(***************************************************************************)
(* The element as a record, and the handlers as functions on it.           *)
(* _filterPattern only feeds _filteredOptions, which the subclasses        *)
(* render; no handler below reads it, and it is left out.                  *)
(***************************************************************************)

This ==
  [multiple |-> multiple, combobox |-> combobox, options |-> options,
   selectedIndex |-> selectedIndex, selectedIndexes |-> selectedIndexes,
   activeIndex |-> activeIndex, showDropdown |-> showDropdown,
   ariaExpanded |-> ariaExpanded, clickListener |-> clickListener,
   value |-> value, values |-> values, filter |-> filter,
   dispatched |-> <<>>, thrown |-> FALSE, warnings |-> <<>>,
   propagationStopped |-> FALSE, defaultPrevented |-> FALSE]

\* set options(opts)
setOptions(s, opts) ==
  [s EXCEPT !.options =
     [i \in 1..Len(opts) |->
        [label |-> opts[i].label, value |-> opts[i].value,
         description |-> opts[i].description, selected |-> opts[i].selected,
         index |-> i - 1]]]

\* The loop of _addOptionsFromSlottedElements over nodes[1..n]: the options
\* built so far and the stat collected so far.
RECURSIVE addOptionsLoop(_, _)
addOptionsLoop(nodes, n) ==
  IF n = 0
    THEN [options |-> <<>>, currentIndex |-> 0,
          stat |-> [selectedIndexes |-> <<>>, values |-> <<>>]]
    ELSE
      LET acc == addOptionsLoop(nodes, n - 1)
          el  == nodes[n]
      IN  IF ~el.isOption
            THEN acc
            ELSE
              LET val  == IF el.hasValue THEN el.value ELSE el.innerText
                  op   == [label |-> el.innerText, value |-> val,
                           description |-> el.description,
                           selected |-> el.selected,
                           index |-> acc.currentIndex]
                  opts == Append(acc.options, op)
              IN  [options |-> opts,
                   currentIndex |-> Len(opts),
                   stat |->
                     IF el.selected
                       THEN [selectedIndexes |->
                               Append(acc.stat.selectedIndexes, Len(opts) - 1),
                             values |-> Append(acc.stat.values, val)]
                       ELSE acc.stat]

\* _addOptionsFromSlottedElements numbering the options by their position
\* among all slotted nodes
RECURSIVE addOptionsLoopPositional(_, _)
addOptionsLoopPositional(nodes, n) ==
  IF n = 0
    THEN [options |-> <<>>, currentIndex |-> 0,
          stat |-> [selectedIndexes |-> <<>>, values |-> <<>>]]
    ELSE
      LET acc == addOptionsLoopPositional(nodes, n - 1)
          el  == nodes[n]
      IN  IF ~el.isOption
            THEN [acc EXCEPT !.currentIndex = n]
            ELSE
              LET val  == IF el.hasValue THEN el.value ELSE el.innerText
                  op   == [label |-> el.innerText, value |-> val,
                           description |-> el.description,
                           selected |-> el.selected,
                           index |-> acc.currentIndex]
                  opts == Append(acc.options, op)
              IN  [options |-> opts,
                   currentIndex |-> n,
                   stat |->
                     IF el.selected
                       THEN [selectedIndexes |->
                               Append(acc.stat.selectedIndexes, Len(opts) - 1),
                             values |-> Append(acc.stat.values, val)]
                       ELSE acc.stat]

addOptionsFromSlottedElementsPositional(nodes) ==
  addOptionsLoopPositional(nodes, Len(nodes))

\* _addOptionsFromSlottedElements: the new _options and the returned stat
addOptionsFromSlottedElements(nodes) == addOptionsLoop(nodes, Len(nodes))

\* _onSlotChange that writes the selection whether or not a child is
\* pre-selected
onSlotChangeAlwaysSeed(s, nodes) ==
  LET r  == addOptionsFromSlottedElements(nodes)
      s1 == [s EXCEPT !.options = r.options]
  IN  [s1 EXCEPT !.selectedIndex =
                   IF Len(r.stat.selectedIndexes) > 0
                     THEN r.stat.selectedIndexes[1] ELSE -1,
                 !.selectedIndexes = r.stat.selectedIndexes]

\* _onSlotChange
onSlotChange(s, nodes) ==
  LET r  == addOptionsFromSlottedElements(nodes)
      s1 == [s EXCEPT !.options = r.options]
  IN  IF Len(r.stat.selectedIndexes) > 0
        THEN [s1 EXCEPT !.selectedIndex = r.stat.selectedIndexes[1],
                        !.selectedIndexes = r.stat.selectedIndexes]
        ELSE s1

\* _toggleDropdown that leaves _activeIndex alone
toggleDropdownKeepActive(s, visible) ==
  [s EXCEPT !.showDropdown = visible,
            !.ariaExpanded = String(visible),
            !.clickListener = visible]

\* _toggleDropdown
toggleDropdown(s, visible) ==
  [s EXCEPT !.showDropdown = visible,
            !.ariaExpanded = String(visible),
            !.activeIndex = IF visible /\ ~s.multiple THEN s.selectedIndex ELSE @,
            !.clickListener = visible]

\* _dispatchChangeEvent
dispatchChangeEvent(s) ==
  IF ~s.multiple
    THEN [s EXCEPT !.dispatched =
            Append(@, [selectedIndex |-> s.selectedIndex, value |-> s.value])]
    ELSE [s EXCEPT !.dispatched =
            Append(@, [selectedIndexes |-> s.selectedIndexes, value |-> s.values])]

\* _onFaceClick
onFaceClick(s) ==
  LET s1 == toggleDropdown(s, ~s.showDropdown)
  IN  IF s1.multiple THEN [s1 EXCEPT !.activeIndex = -1] ELSE s1

\* _onClickOutside with the test on found inverted
onClickOutsideInverted(s, path) ==
  LET found == FindIndex(path, "this")
  IN  IF found # -1
        THEN [toggleDropdown(s, FALSE) EXCEPT !.clickListener = FALSE]
        ELSE s

\* _onClickOutside
onClickOutside(s, path) ==
  LET found == FindIndex(path, "this")
  IN  IF found = -1
        THEN [toggleDropdown(s, FALSE) EXCEPT !.clickListener = FALSE]
        ELSE s

\* _toggleComboboxDropdown
toggleComboboxDropdown(s) ==
  LET s1 == toggleDropdown(s, ~s.showDropdown)
  IN  IF s1.multiple THEN [s1 EXCEPT !.activeIndex = -1] ELSE s1

\* _onComboboxButtonClick
onComboboxButtonClick(s) == toggleComboboxDropdown(s)

\* _onComboboxButtonKeyDown
onComboboxButtonKeyDown(s, key) ==
  IF key = "Enter" THEN toggleComboboxDropdown(s) ELSE s

\* _onOptionMouseOver: el is the event target, with whether it matches
\* .option and the number in its data-index
onOptionMouseOver(s, el) ==
  IF ~el.matchesOption THEN s ELSE [s EXCEPT !.activeIndex = el.dataIndex]

\* _onEnterKeyDown committing without comparing _selectedIndex to _activeIndex
onEnterKeyDownNoCompare(s) ==
  LET visible == ~s.showDropdown
      s1 == toggleDropdown(s, visible)
  IN  IF ~s1.multiple /\ ~visible
        THEN
          LET s2 == [s1 EXCEPT !.selectedIndex = s1.activeIndex]
          IN  IF Undefined(s2.options, s2.selectedIndex)
                THEN [s2 EXCEPT !.thrown = TRUE]
                ELSE dispatchChangeEvent(
                       [s2 EXCEPT !.value = At(s2.options, s2.selectedIndex).value])
        ELSE
          IF s1.multiple /\ visible
            THEN [s1 EXCEPT !.activeIndex = 0]
            ELSE s1

\* _onEnterKeyDown committing without testing _multiple
onEnterKeyDownAnyMode(s) ==
  LET visible == ~s.showDropdown
      s1 == toggleDropdown(s, visible)
      s3 == IF ~visible /\ s1.selectedIndex # s1.activeIndex
              THEN
                LET s2 == [s1 EXCEPT !.selectedIndex = s1.activeIndex]
                IN  IF Undefined(s2.options, s2.selectedIndex)
                      THEN [s2 EXCEPT !.thrown = TRUE]
                      ELSE dispatchChangeEvent(
                             [s2 EXCEPT !.value =
                                At(s2.options, s2.selectedIndex).value])
              ELSE s1
  IN  IF ~s3.thrown /\ s3.multiple /\ visible
        THEN [s3 EXCEPT !.activeIndex = 0]
        ELSE s3

\* _onEnterKeyDown
onEnterKeyDown(s) ==
  LET visible == ~s.showDropdown
      s1 == toggleDropdown(s, visible)
  IN  IF ~s1.multiple /\ ~visible /\ s1.selectedIndex # s1.activeIndex
        THEN
          LET s2 == [s1 EXCEPT !.selectedIndex = s1.activeIndex]
          IN  IF Undefined(s2.options, s2.selectedIndex)
                THEN [s2 EXCEPT !.thrown = TRUE]
                ELSE dispatchChangeEvent(
                       [s2 EXCEPT !.value = At(s2.options, s2.selectedIndex).value])
        ELSE
          IF s1.multiple /\ visible
            THEN [s1 EXCEPT !.activeIndex = 0]
            ELSE s1

\* The forEach of _onSpaceKeyDown: the index of every selected option
RECURSIVE selectedScan(_, _)
selectedScan(opts, n) ==
  IF n = 0 THEN <<>>
  ELSE IF opts[n].selected
         THEN Append(selectedScan(opts, n - 1), opts[n].index)
         ELSE selectedScan(opts, n - 1)

\* _onSpaceKeyDown
onSpaceKeyDown(s) ==
  IF ~s.showDropdown
    THEN toggleDropdown(s, TRUE)
    ELSE
      IF s.showDropdown /\ s.multiple /\ s.activeIndex > -1
        THEN
          IF Undefined(s.options, s.activeIndex)
            THEN [s EXCEPT !.thrown = TRUE]
            ELSE
              LET opts == [s.options EXCEPT ![s.activeIndex + 1].selected = ~@]
              IN  [s EXCEPT !.options = opts,
                            !.selectedIndexes = selectedScan(opts, Len(opts))]
        ELSE s

\* _onArrowUpKeyDown
onArrowUpKeyDown(s) ==
  IF s.showDropdown
    THEN IF s.activeIndex <= 0 THEN s ELSE [s EXCEPT !.activeIndex = @ - 1]
    ELSE s

\* _onArrowDownKeyDown stopping one step too late
onArrowDownKeyDownTooFar(s) ==
  IF s.showDropdown
    THEN IF s.activeIndex >= Len(s.options)
           THEN s
           ELSE [s EXCEPT !.activeIndex = @ + 1]
    ELSE s

\* _onArrowDownKeyDown
onArrowDownKeyDown(s) ==
  IF s.showDropdown
    THEN IF s.activeIndex >= Len(s.options) - 1
           THEN s
           ELSE [s EXCEPT !.activeIndex = @ + 1]
    ELSE s

\* The keys for which _onComponentKeyDown stops the event
StoppedKeys == {" ", "ArrowUp", "ArrowDown", "Escape"}

\* _onComponentKeyDown
onComponentKeyDown(s, key) ==
  LET s1 == IF key \in StoppedKeys
              THEN [s EXCEPT !.propagationStopped = TRUE,
                             !.defaultPrevented = TRUE]
              ELSE s
  IN  CASE key = "Enter"     -> onEnterKeyDown(s1)
        [] key = " "         -> onSpaceKeyDown(s1)
        [] key = "Escape"    -> [s1 EXCEPT !.showDropdown = FALSE]
        [] key = "ArrowUp"   -> onArrowUpKeyDown(s1)
        [] key = "ArrowDown" -> onArrowDownKeyDown(s1)
        [] OTHER             -> s1

\* _onComboboxInputInput
onComboboxInputInput(s) == toggleDropdown(s, TRUE)

\* validValues of the filter setter
validValues == <<"contains", "fuzzy", "startsWith", "startsWithPerTerm">>

\* Array.prototype.includes
Includes(arr, x) == \E i \in 1..Len(arr) : arr[i] = x

\* set filter(val) falling back to the previous method
setFilterKeepPrevious(s, val) ==
  IF Includes(validValues, val)
    THEN [s EXCEPT !.filter = val]
    ELSE [s EXCEPT !.warnings = Append(@, val)]

\* set filter(val): the console.warn call is recorded by the rejected val
setFilter(s, val) ==
  IF Includes(validValues, val)
    THEN [s EXCEPT !.filter = val]
    ELSE [s EXCEPT !.filter = "fuzzy", !.warnings = Append(@, val)]

(***************************************************************************)
(* Actions: one per handler invocation.                                    *)
(***************************************************************************)

\* The element's fields after a handler returned s
Commit(s, ev) ==
  /\ options' = s.options
  /\ selectedIndex' = s.selectedIndex
  /\ selectedIndexes' = s.selectedIndexes
  /\ activeIndex' = s.activeIndex
  /\ showDropdown' = s.showDropdown
  /\ ariaExpanded' = s.ariaExpanded
  /\ clickListener' = s.clickListener
  /\ value' = s.value
  /\ values' = s.values
  /\ filter' = s.filter
  /\ dispatched' = s.dispatched
  /\ thrown' = s.thrown
  /\ warnings' = s.warnings
  /\ propagationStopped' = s.propagationStopped
  /\ defaultPrevented' = s.defaultPrevented
  /\ lastEvent' = ev
  /\ wasOpen' = showDropdown
  /\ UNCHANGED <<multiple, combobox>>

Init ==
  /\ multiple \in BOOLEAN
  /\ combobox \in BOOLEAN
  /\ isConnected = FALSE
  /\ options = <<>>
  /\ selectedIndex = -1
  /\ selectedIndexes = <<>>
  /\ activeIndex = -1
  /\ showDropdown = FALSE
  /\ ariaExpanded = "false"
  /\ clickListener = FALSE
  /\ value = ""
  /\ values = <<>>
  /\ filter = "fuzzy"
  /\ assignedNodes = <<>>
  /\ warnings = <<>>
  /\ lastEvent = "constructor"
  /\ wasOpen = FALSE
  /\ dispatched = <<>>
  /\ thrown = FALSE
  /\ propagationStopped = FALSE
  /\ defaultPrevented = FALSE

\* connectedCallback
Connect ==
  /\ ~isConnected
  /\ isConnected' = TRUE
  /\ Commit(This, "connected")
  /\ assignedNodes' = <<>>

\* disconnectedCallback
Disconnect ==
  /\ isConnected
  /\ isConnected' = FALSE
  /\ Commit(This, "disconnected")
  /\ assignedNodes' = <<>>

\* element.options = opts
SetOptions ==
  \E opts \in OptsLists :
    /\ Commit(setOptions(This, opts), "options")
    /\ UNCHANGED isConnected
    /\ assignedNodes' = <<>>

\* slotchange on the main slot, with the nodes then assigned to it
SlotChange ==
  \E nodes \in NodeLists :
    /\ isConnected
    /\ Commit(onSlotChange(This, nodes), "slotchange")
    /\ assignedNodes' = nodes
    /\ UNCHANGED isConnected

\* click on the select face (rendered when the element is not a combobox)
FaceClick ==
  /\ isConnected /\ ~combobox
  /\ Commit(onFaceClick(This), "faceClick")
  /\ UNCHANGED isConnected
  /\ assignedNodes' = <<>>

\* click on the combobox button
ComboboxButtonClick ==
  /\ isConnected /\ combobox
  /\ Commit(onComboboxButtonClick(This), "comboboxButtonClick")
  /\ UNCHANGED isConnected
  /\ assignedNodes' = <<>>

\* keydown on the combobox button
ComboboxButtonKeyDown ==
  \E key \in {"Enter", "a"} :
    /\ isConnected /\ combobox
    /\ Commit(onComboboxButtonKeyDown(This, key), "comboboxButtonKeyDown")
    /\ UNCHANGED isConnected
    /\ assignedNodes' = <<>>

\* input on the combobox text field
ComboboxInputInput ==
  /\ isConnected /\ combobox
  /\ Commit(onComboboxInputInput(This), "comboboxInput")
  /\ UNCHANGED isConnected
  /\ assignedNodes' = <<>>

\* mouseover inside the rendered dropdown
OptionMouseOver ==
  \E el \in {[matchesOption |-> FALSE, dataIndex |-> -1]} \cup
            {[matchesOption |-> TRUE, dataIndex |-> At(options, i).index] :
               i \in 0..(Len(options) - 1)} :
    /\ isConnected /\ showDropdown
    /\ Commit(onOptionMouseOver(This, el), "optionMouseOver")
    /\ UNCHANGED isConnected
    /\ assignedNodes' = <<>>

\* click reaching window while _onClickOutsideBound is registered there
WindowClick ==
  \E path \in {PathOutside} \cup (IF isConnected THEN {PathInside} ELSE {}) :
    /\ clickListener
    /\ Commit(onClickOutside(This, path),
              IF FindIndex(path, "this") = -1 THEN "clickOutside" ELSE "clickInside")
    /\ UNCHANGED isConnected
    /\ assignedNodes' = <<>>

\* keydown on the element
KeyDown ==
  \E key \in Keys :
    /\ isConnected
    /\ Commit(onComponentKeyDown(This, key), key)
    /\ UNCHANGED isConnected
    /\ assignedNodes' = <<>>

Next ==
  \/ Connect
  \/ Disconnect
  \/ SetOptions
  \/ SlotChange
  \/ FaceClick
  \/ ComboboxButtonClick
  \/ ComboboxButtonKeyDown
  \/ ComboboxInputInput
  \/ OptionMouseOver
  \/ WindowClick
  \/ KeyDown

Spec == Init /\ [][Next]_vars

(***************************************************************************)
(* SpecIngest: the slotted children are kept in assignedNodes from one     *)
(* slot change to the next, so that a slot change over unchanged children  *)
(* can be told from one over new children.  The handlers are the same.     *)
(***************************************************************************)

\* A handler of the connected element that leaves its children alone
Handled(s, ev) ==
  /\ isConnected
  /\ Commit(s, ev)
  /\ UNCHANGED <<isConnected, assignedNodes>>

\* connectedCallback
IngestConnect ==
  /\ ~isConnected
  /\ isConnected' = TRUE
  /\ Commit(This, "connected")
  /\ UNCHANGED assignedNodes

\* slotchange after the children changed to nodes
IngestSlotChange ==
  \E nodes \in NodeLists \ {assignedNodes} :
    /\ isConnected
    /\ Commit(onSlotChange(This, nodes), "slotchange")
    /\ assignedNodes' = nodes
    /\ UNCHANGED isConnected

\* _onSlotChange run again over the unchanged children
Reingest ==
  /\ isConnected
  /\ Commit(onSlotChange(This, assignedNodes), "reingest")
  /\ UNCHANGED <<isConnected, assignedNodes>>

\* click on the select face
IngestFaceClick == ~combobox /\ Handled(onFaceClick(This), "faceClick")

\* click on the combobox button
IngestComboboxButtonClick ==
  combobox /\ Handled(onComboboxButtonClick(This), "comboboxButtonClick")

\* mouseover on a rendered option
IngestOptionMouseOver ==
  \E i \in 0..(Len(options) - 1) :
    /\ showDropdown
    /\ Handled(onOptionMouseOver(This, [matchesOption |-> TRUE,
                                        dataIndex |-> At(options, i).index]),
               "optionMouseOver")

\* keydown on the element
IngestKeyDown ==
  \E key \in Keys : Handled(onComponentKeyDown(This, key), key)

NextIngest ==
  \/ IngestConnect
  \/ IngestSlotChange
  \/ Reingest
  \/ IngestFaceClick
  \/ IngestComboboxButtonClick
  \/ IngestOptionMouseOver
  \/ IngestKeyDown

SpecIngest == Init /\ [][NextIngest]_vars

(***************************************************************************)
(* SpecFilter: assignments to the filter property, between the events that *)
(* open and close the dropdown.                                            *)
(***************************************************************************)

\* element.filter = val
SetFilter ==
  \E val \in FilterInputs :
    /\ Commit(setFilter(This, val), "filter")
    /\ assignedNodes' = <<>>
    /\ UNCHANGED isConnected

NextFilter ==
  \/ SetFilter
  \/ Connect
  \/ Disconnect
  \/ FaceClick
  \/ ComboboxButtonClick
  \/ WindowClick
  \/ KeyDown

SpecFilter == Init /\ [][NextFilter]_vars

(***************************************************************************)
(* Properties.                                                             *)
(***************************************************************************)

\* The indexes of the current Option List
ValidIndexes == 0..(Len(options) - 1)

\* The selected flag of every Option Record, in list order
SelectedFlags(opts) == [i \in 1..Len(opts) |-> opts[i].selected]

\* Selection State: the two index fields and the selected flags
SelectionUnchanged ==
  /\ selectedIndex' = selectedIndex
  /\ selectedIndexes' = selectedIndexes
  /\ SelectedFlags(options') = SelectedFlags(options)

\* C1: the outside-click listener is attached to window exactly when the
\* dropdown is open; in no state is the dropdown closed with the listener
\* still attached.
C1_ListenerIffOpen == clickListener <=> showDropdown

\* C2: right after the element is detached from the document, no
\* outside-click listener of it remains on window.
C2_NoListenerAfterDetach == lastEvent = "disconnected" => ~clickListener

\* C3: every index held in Selection State is an index of the current Option
\* List; stated for the states the claim singles out, those right after a
\* slot change: the selected index is -1 or valid, every element of
\* selectedIndexes is valid, and the slot change dispatched no change event.
C3_SelectionIndexesValid ==
  lastEvent = "slotchange" =>
    /\ selectedIndex # -1 => selectedIndex \in ValidIndexes
    /\ \A i \in 1..Len(selectedIndexes) : selectedIndexes[i] \in ValidIndexes
    /\ dispatched = <<>>

\* C4: no handler ends in an uncaught failure.
C4_NoUncaughtFailure == ~thrown

\* C5: in single-select mode Enter on an open dropdown closes it; when the
\* active index differed from the selected index, the selected index becomes
\* the former active index and exactly one change event is dispatched, with
\* that index and the value of the option there; when they were equal,
\* Selection State is unchanged and nothing is dispatched.
C5_EnterCommits ==
  [][(~multiple /\ showDropdown /\ lastEvent' = "Enter") =>
       /\ ~showDropdown'
       /\ IF activeIndex # selectedIndex
            THEN /\ selectedIndex' = activeIndex
                 /\ selectedIndex' \in 0..(Len(options') - 1)
                 /\ dispatched' =
                      <<[selectedIndex |-> selectedIndex',
                         value |-> At(options', selectedIndex').value]>>
            ELSE /\ SelectionUnchanged
                 /\ dispatched' = <<>>]_vars

\* C6: a change event is dispatched only by a step that commits a selection
\* change: Enter on an open dropdown, with Selection State changed in that
\* same step; no other step dispatches one.
C6_NotifyOnlyOnCommit ==
  [][dispatched' # <<>> =>
       /\ lastEvent' = "Enter"
       /\ showDropdown
       /\ Len(dispatched') = 1
       /\ ~SelectionUnchanged]_vars

\* C6 witness: a change event was dispatched by the last step.
C6_Witness == dispatched # <<>> /\ lastEvent = "Enter" /\ selectedIndex = 1

\* C7: in multi-select mode Space on an open dropdown with active index >= 0
\* flips the selected flag of exactly the option at the active index,
\* recomputes selectedIndexes as the ascending indexes of the selected
\* options, and leaves the dropdown open.
C7_SpaceToggles ==
  [][(multiple /\ showDropdown /\ activeIndex >= 0 /\ lastEvent' = " ") =>
       /\ showDropdown'
       /\ activeIndex \in ValidIndexes
       /\ Len(options') = Len(options)
       /\ \A i \in 1..Len(options) :
            options'[i] =
              IF i = activeIndex + 1
                THEN [options[i] EXCEPT !.selected = ~options[i].selected]
                ELSE options[i]
       /\ \A i \in 1..Len(selectedIndexes') :
            /\ selectedIndexes'[i] \in 0..(Len(options') - 1)
            /\ At(options', selectedIndexes'[i]).selected
            /\ \A j \in 1..(i - 1) : selectedIndexes'[j] < selectedIndexes'[i]
       /\ \A k \in 0..(Len(options') - 1) :
            At(options', k).selected =>
              \E i \in 1..Len(selectedIndexes') : selectedIndexes'[i] = k]_vars

\* C8: Escape, or a click outside the element, on an open dropdown closes it
\* with Selection State unchanged and no change event; a click inside the
\* element leaves the dropdown as it was.
C8_CancelKeepsSelection ==
  [][/\ (showDropdown /\ lastEvent' \in {"Escape", "clickOutside"}) =>
          /\ ~showDropdown'
          /\ SelectionUnchanged
          /\ dispatched' = <<>>
     /\ lastEvent' = "clickInside" =>
          /\ showDropdown' = showDropdown
          /\ clickListener' = clickListener
          /\ SelectionUnchanged
          /\ dispatched' = <<>>]_vars

\* C8 witness: an outside click closed an open dropdown whose active index
\* had moved away from the selection.
C8_Witness ==
  /\ lastEvent = "clickOutside" /\ wasOpen /\ ~showDropdown
  /\ activeIndex # selectedIndex /\ activeIndex \in ValidIndexes

\* C9: in multi-select mode Enter on an open dropdown closes it and leaves
\* selectedIndexes, selectedIndex and every selected flag as they were, with
\* no change event.
C9_MultiEnterKeepsSelection ==
  [][(multiple /\ showDropdown /\ lastEvent' = "Enter") =>
       /\ ~showDropdown'
       /\ SelectionUnchanged
       /\ dispatched' = <<>>]_vars

\* C9 witness: Enter closed an open multi-select dropdown that has selected
\* options and an active index away from the selected index.
C9_Witness ==
  /\ multiple /\ lastEvent = "Enter" /\ wasOpen /\ ~showDropdown
  /\ selectedIndexes # <<>>
  /\ activeIndex \in ValidIndexes /\ activeIndex # selectedIndex

\* C10: a keydown of Space, ArrowUp, ArrowDown, Escape or Enter has its
\* propagation stopped and its default action prevented, in every state.
C10_RecognizedKeysStopped ==
  lastEvent \in {" ", "ArrowUp", "ArrowDown", "Escape", "Enter"} =>
    propagationStopped /\ defaultPrevented

\* C11: a slot change over unchanged children leaves the Option List, with
\* every selected flag, and selectedIndex and selectedIndexes as they were,
\* in every reachable state (stated for the states whose last handler ran to
\* completion, so that no failed handler is involved).
C11_ReingestIdempotent ==
  [][(~thrown /\ lastEvent' = "reingest") =>
       /\ options' = options
       /\ selectedIndex' = selectedIndex
       /\ selectedIndexes' = selectedIndexes]_vars

\* C12: the effective filter method is always one of the four search
\* methods; assigning one of them makes it the effective method with no
\* warning, and assigning any other string makes the effective method fuzzy
\* with exactly one warning, for that string, and no failure.
C12_FilterFallsBackToFuzzy ==
  /\ [](Includes(validValues, filter))
  /\ [][\A val \in FilterInputs :
          (lastEvent' = "filter" /\ Commit(setFilter(This, val), "filter")) =>
            /\ ~thrown'
            /\ IF val \in {"contains", "fuzzy", "startsWith", "startsWithPerTerm"}
                 THEN filter' = val /\ warnings' = <<>>
                 ELSE filter' = "fuzzy" /\ warnings' = <<val>>]_vars

\* C12 witness: "bogus" was assigned while startsWith was the effective
\* method; the effective method is fuzzy and one warning was recorded.
C12_Witness ==
  /\ lastEvent = "filter" /\ warnings = <<"bogus">> /\ filter = "fuzzy"
  /\ showDropdown

\* The last step opened a closed dropdown by a face click, Enter or Space
OpenedBy == {"faceClick", "Enter", " "}

\* C13: whenever a face click, Enter or Space opens the closed dropdown, the
\* active index afterwards is the selected index in single-select mode and
\* -1 in multi-select mode.
C13_OpenResetsActiveIndex ==
  [][(~showDropdown /\ showDropdown' /\ lastEvent' \in OpenedBy) =>
       activeIndex' = IF multiple THEN -1 ELSE selectedIndex']_vars

\* C13 as amended: in single-select mode the active index afterwards is the
\* selected index; in multi-select mode it is -1 after a face click, 0 after
\* Enter, and what it was before after Space.
C13_OpenSetsActiveIndex ==
  [][(~showDropdown /\ showDropdown' /\ lastEvent' \in OpenedBy) =>
       /\ selectedIndex' = selectedIndex
       /\ activeIndex' =
            IF ~multiple THEN selectedIndex
            ELSE IF lastEvent' = "faceClick" THEN -1
            ELSE IF lastEvent' = "Enter" THEN 0
            ELSE activeIndex]_vars

\* C13 witness: Space opened a closed multi-select dropdown and the active
\* index is still 1, away from -1 and from the selected index.
C13_Witness ==
  /\ multiple /\ lastEvent = " " /\ ~wasOpen /\ showDropdown
  /\ activeIndex = 1 /\ selectedIndex # 1

\* C14: on an open dropdown ArrowDown adds exactly 1 to the active index
\* when it is below length-1 and otherwise leaves it, ArrowUp subtracts
\* exactly 1 when it is above 0 and otherwise leaves it; on a closed dropdown
\* both leave it; ArrowDown never takes an active index that is at most
\* length-1 beyond length-1.
C14_ArrowsClamp ==
  [][/\ lastEvent' = "ArrowDown" =>
          /\ activeIndex' =
               IF showDropdown /\ activeIndex < Len(options) - 1
                 THEN activeIndex + 1 ELSE activeIndex
          /\ activeIndex <= Len(options) - 1 =>
               activeIndex' <= Len(options') - 1
     /\ lastEvent' = "ArrowUp" =>
          activeIndex' =
            IF showDropdown /\ activeIndex > 0
              THEN activeIndex - 1 ELSE activeIndex]_vars

\* C14 witness: ArrowDown on an open dropdown of two options, with the
\* active index on the last one.
C14_Witness ==
  /\ lastEvent = "ArrowDown" /\ wasOpen /\ showDropdown
  /\ Len(options) = 2 /\ activeIndex = 1

\* The slotted nodes that are option descriptors, in document order
KeptChildren(nodes) ==
  LET IsOption(el) == el.isOption IN SelectSeq(nodes, IsOption)

\* The indexes 0..Len(kept)-1 of the pre-selected kept children, ascending
PreSelected(kept) ==
  LET IsSelected(i) == kept[i + 1].selected
  IN  SelectSeq([i \in 1..Len(kept) |-> i - 1], IsSelected)

\* C15: a slot change keeps the option descriptors only, numbering them from
\* 0 without gaps; when some kept child is pre-selected, selectedIndex is the
\* index of the first such child and selectedIndexes the ascending indexes of
\* all of them; when none is, both are left as they were.
C15_IngestSeedsSelection ==
  [][lastEvent' = "slotchange" =>
       LET kept == KeptChildren(assignedNodes')
           pre  == PreSelected(kept)
       IN  /\ options' =
                [i \in 1..Len(kept) |->
                   [label |-> kept[i].innerText,
                    value |-> IF kept[i].hasValue THEN kept[i].value
                                                  ELSE kept[i].innerText,
                    description |-> kept[i].description,
                    selected |-> kept[i].selected,
                    index |-> i - 1]]
           /\ IF pre # <<>>
                THEN /\ selectedIndex' = pre[1]
                     /\ selectedIndexes' = pre
                ELSE /\ selectedIndex' = selectedIndex
                     /\ selectedIndexes' = selectedIndexes]_vars

\* C15 witness: a slot change over a node that is no option followed by a
\* pre-selected option seeded index 0.
C15_Witness ==
  /\ lastEvent = "slotchange" /\ assignedNodes = <<OtherNode, OptionB>>
  /\ selectedIndex = 0 /\ selectedIndexes = <<0>>

\* C16: the Option Record at position i has index i, for every position of
\* the Option List, in every reachable state.
C16_IndexesContiguous ==
  \A i \in 0..(Len(options) - 1) : At(options, i).index = i

\* C16 witness: a slot change over a node that is no option followed by an
\* option built an Option List of one record.
C16_Witness ==
  /\ lastEvent = "slotchange" /\ assignedNodes = <<OtherNode, OptionA>>
  /\ Len(options) = 1

\* C17: in every reachable state the active index is -1 or the index of an
\* existing Option Record.
C17_ActiveIndexInRange ==
  ~thrown => activeIndex \in -1..(Len(options) - 1)

\* C18: in every reachable state aria-expanded is "true" exactly when the
\* dropdown is open and "false" exactly when it is closed.
C18_AriaExpandedMirrorsOpen ==
  ariaExpanded = String(showDropdown)

\* C19: in single-select mode, in every reachable state whose selectedIndex
\* is the index of an Option Record, the stored value equals that record's
\* value.
C19_ValueTracksSelection ==
  (~multiple /\ ~thrown /\ selectedIndex \in ValidIndexes) =>
    value = At(options, selectedIndex).value

====
